---- MODULE Spec2Model ----
(***************************************************************************)
(* A model of truthy_measure/utils.py: the bounded cache (class Cache),    *)
(* the weighted adjacency construction (make_weighted and its helpers),    *)
(* the CSR loader (loadadjcsr) and the memory-mapped NPY writer            *)
(* (arrayfile).  Each component has its own specification; the variables   *)
(* of the components a specification does not exercise stay at rest.       *)
(***************************************************************************)
EXTENDS Integers, Sequences, FiniteSets, TLC

VARIABLES maxsize, dict, queue, lru, last,
          N, coordfile, coords, adj, dist, sim, weights, wadj, pcW,
          npzfile, npz, loc, resL, pcL,
          args, data_file, cio, cio_pos, offset, view, pcA

varsCache == <<maxsize, dict, queue, lru, last>>

varsW == <<N, coordfile, coords, adj, dist, sim, weights, wadj, pcW>>

varsL == <<npzfile, npz, loc, resL, pcL>>

varsA == <<args, data_file, cio, cio_pos, offset, view, pcA>>

vars == <<varsCache, varsW, varsL, varsA>>

(***************************************************************************)
(* Bounds of the cache model.                                              *)
(***************************************************************************)
MaxMaxsize == 2
NumKeys == 3
NumVals == 2

Keys == 1..NumKeys
Vals == 1..NumVals

(***************************************************************************)
(* Python list and dict primitives used by Cache.                          *)
(***************************************************************************)
\* key in self._queue
InQueue(q, k) == \E i \in 1..Len(q) : q[i] = k

\* the index list.remove(key) deletes: the first occurrence
FirstIndex(q, k) == CHOOSE i \in 1..Len(q) : q[i] = k /\ \A j \in 1..(i - 1) : q[j] # k

\* self._queue.remove(key), for a key that occurs in the list
ListRemove(q, k) ==
    LET i == FirstIndex(q, k)
    IN  SubSeq(q, 1, i - 1) \o SubSeq(q, i + 1, Len(q))

\* del self[key], for a key of the dict
DictDel(d, k) == [x \in (DOMAIN d) \ {k} |-> d[x]]

\* a store that keeps the value of a key already present
DictSet_KeepOld(d, k, v) == [x \in (DOMAIN d) \cup {k} |-> IF x \in DOMAIN d THEN d[x] ELSE v]

\* super(Cache, self).__setitem__(key, value)
DictSet(d, k, v) == [x \in (DOMAIN d) \cup {k} |-> IF x = k THEN v ELSE d[x]]

(***************************************************************************)
(* Cache.__setitem__                                                       *)
(***************************************************************************)
\* an eviction test that fires one entry too late
SetItemEvicts_Late(q, m, k) == (~InQueue(q, k)) /\ Len(q) > m

\* line 234: the queue is full and the key is new
SetItemEvicts(q, m, k) == (~InQueue(q, k)) /\ Len(q) = m

\* lines 235-236: oldest_key = self._queue.pop(0); del self[oldest_key]
\* (del raises KeyError, after the pop, when the popped key is no key of the dict)
SetItemPopFails(d, q, m, k) == SetItemEvicts(q, m, k) /\ Head(q) \notin DOMAIN d

QueueAfterPop(q, m, k) == IF SetItemEvicts(q, m, k) THEN Tail(q) ELSE q

DictAfterPop(d, q, m, k) ==
    IF SetItemEvicts(q, m, k) /\ Head(q) \in DOMAIN d THEN DictDel(d, Head(q)) ELSE d

\* a requeue that appends without removing the old position
QueueRequeue_NoRemove(q, k) == Append(q, k)

\* lines 239-243: try: remove(key) except ValueError: pass; then append(key)
QueueRequeue(q, k) == Append(IF InQueue(q, k) THEN ListRemove(q, k) ELSE q, k)

SetItemDict(d, q, m, k, v) ==
    IF SetItemPopFails(d, q, m, k) THEN d ELSE DictSet(DictAfterPop(d, q, m, k), k, v)

SetItemQueue(d, q, m, k) ==
    IF SetItemPopFails(d, q, m, k) THEN Tail(q) ELSE QueueRequeue(QueueAfterPop(q, m, k), k)

SetItemResult(d, q, m, k) == IF SetItemPopFails(d, q, m, k) THEN "KeyError" ELSE "ok"

(***************************************************************************)
(* Cache.__getitem__                                                       *)
(***************************************************************************)
\* line 245 raises KeyError for a missing key; line 246 raises ValueError for a
\* key of the dict that the queue does not list
GetItemResult(d, q, k) ==
    IF k \notin DOMAIN d THEN <<"KeyError", 0>>
    ELSE IF ~InQueue(q, k) THEN <<"ValueError", 0>>
    ELSE <<"ok", d[k]>>

\* a lookup that leaves the recency order alone
GetItemQueue_NoPromote(d, q, k) == q

\* a lookup that requeues the key before it looks it up
GetItemQueue_Eager(d, q, k) == Append(IF InQueue(q, k) THEN ListRemove(q, k) ELSE q, k)

\* lines 246-247, reached only when line 245 found the key
GetItemQueue(d, q, k) ==
    IF k \in DOMAIN d /\ InQueue(q, k) THEN Append(ListRemove(q, k), k) ELSE q

(***************************************************************************)
(* The reference LRU model driven in parallel: lru lists every key touched *)
(* so far, least recently touched first, without a capacity.               *)
(***************************************************************************)
Touch(l, k) == Append(IF InQueue(l, k) THEN ListRemove(l, k) ELSE l, k)

\* the n most recently touched distinct keys
MostRecent(l, n) == {l[i] : i \in {j \in 1..Len(l) : j > Len(l) - n}}

\* the least recently touched key among those of S (S nonempty, all touched)
LeastRecentIn(l, S) == l[CHOOSE i \in 1..Len(l) : l[i] \in S /\ \A j \in 1..(i - 1) : l[j] \notin S]

(***************************************************************************)
(* The components at rest.                                                 *)
(***************************************************************************)
RestCache ==
    /\ maxsize = 1
    /\ dict = <<>>
    /\ queue = <<>>
    /\ lru = <<>>
    /\ last = [op |-> "none"]

RestW ==
    /\ N = 1
    /\ coordfile = <<>>
    /\ coords = <<>>
    /\ adj = <<>>
    /\ dist = <<>>
    /\ sim = <<>>
    /\ weights = <<>>
    /\ wadj = <<>>
    /\ pcW = "rest"

RestL ==
    /\ npzfile = <<>>
    /\ npz = <<>>
    /\ loc = <<>>
    /\ resL = <<>>
    /\ pcL = "rest"

RestA ==
    /\ args = <<>>
    /\ data_file = <<>>
    /\ cio = <<>>
    /\ cio_pos = 0
    /\ offset = 0
    /\ view = <<>>
    /\ pcA = "rest"

\* last records the latest operation, its outcome and the state it started in;
\* prev is the operation before it
NoPrev == [op |-> "none", key |-> 0, val |-> 0]

NoOp == [op |-> "none", key |-> 0, val |-> 0, res |-> <<"ok", 0>>,
         preDict |-> <<>>, preQueue |-> <<>>, preLru |-> <<>>, prev |-> NoPrev]

PrevOf(l) == [op |-> l.op, key |-> l.key, val |-> l.val]

\* Cache.__init__ without initial items
InitCache ==
    /\ maxsize \in 1..MaxMaxsize
    /\ dict = <<>>
    /\ queue = <<>>
    /\ lru = <<>>
    /\ last = NoOp

\* cache[k] = v
Put(k, v) ==
    /\ dict' = SetItemDict(dict, queue, maxsize, k, v)
    /\ queue' = SetItemQueue(dict, queue, maxsize, k)
    /\ lru' = IF SetItemResult(dict, queue, maxsize, k) = "ok" THEN Touch(lru, k) ELSE lru
    /\ last' = [op |-> "put", key |-> k, val |-> v,
                res |-> <<SetItemResult(dict, queue, maxsize, k), 0>>,
                preDict |-> dict, preQueue |-> queue, preLru |-> lru, prev |-> PrevOf(last)]
    /\ UNCHANGED <<maxsize, varsW, varsL, varsA>>

\* cache[k]
Get(k) ==
    /\ queue' = GetItemQueue(dict, queue, k)
    /\ lru' = IF GetItemResult(dict, queue, k)[1] = "ok" THEN Touch(lru, k) ELSE lru
    /\ last' = [op |-> "get", key |-> k, val |-> 0,
                res |-> GetItemResult(dict, queue, k),
                preDict |-> dict, preQueue |-> queue, preLru |-> lru, prev |-> PrevOf(last)]
    /\ UNCHANGED <<maxsize, dict, varsW, varsL, varsA>>

NextCache ==
    \/ \E k \in Keys, v \in Vals : Put(k, v)
    \/ \E k \in Keys : Get(k)

InitCacheOnly == InitCache /\ RestW /\ RestL /\ RestA

SpecCache == InitCacheOnly /\ [][NextCache]_vars

(***************************************************************************)
(* Properties of the cache.                                                *)
(***************************************************************************)
StoredKeys == DOMAIN dict

QueueKeys == {queue[i] : i \in 1..Len(queue)}

\* the latest operation was a put of a new key into a full cache
PutEvicted ==
    /\ last.op = "put"
    /\ last.key \notin DOMAIN last.preDict
    /\ Cardinality(DOMAIN last.preDict) = maxsize

\* C1: in every reachable state the cache stores at most maxsize keys.
Thm_C1 == Cardinality(StoredKeys) <= maxsize

Wit_C1 == PutEvicted /\ Cardinality(StoredKeys) = maxsize /\ maxsize >= 2

\* C2: the stored keys are always the maxsize most recently touched distinct
\* keys of the reference LRU model; a put of a new key into a full cache
\* evicts exactly the least recently touched stored key, and a put of a key
\* already present evicts nothing.
Thm_C2 ==
    /\ StoredKeys = MostRecent(lru, maxsize)
    /\ PutEvicted =>
          StoredKeys = ((DOMAIN last.preDict)
                          \ {LeastRecentIn(last.preLru, DOMAIN last.preDict)}) \cup {last.key}
    /\ (last.op = "put" /\ last.key \in DOMAIN last.preDict) =>
          StoredKeys = DOMAIN last.preDict

Wit_C2 ==
    /\ PutEvicted
    /\ maxsize >= 2
    /\ Len(last.preLru) > maxsize
    /\ last.prev.op = "get"
    /\ last.preQueue # <<>>
    /\ last.prev.key = last.preQueue[Len(last.preQueue)]

\* C3: a get(k) performed immediately after put(k, v) succeeds and returns v.
Thm_C3 ==
    (last.op = "get" /\ last.prev.op = "put" /\ last.prev.key = last.key) =>
        last.res = <<"ok", last.prev.val>>

Wit_C3 ==
    /\ last.op = "get" /\ last.prev.op = "put" /\ last.prev.key = last.key
    /\ Cardinality(StoredKeys) = maxsize
    /\ Len(lru) > maxsize
    /\ last.res = <<"ok", 2>>

\* C4: a get of a key that is not stored fails with KeyError and leaves the
\* stored pairs and the recency queue as they were.
Thm_C4 ==
    (last.op = "get" /\ last.key \notin DOMAIN last.preDict) =>
        /\ last.res[1] = "KeyError"
        /\ dict = last.preDict
        /\ queue = last.preQueue

\* a failed get of a key that was stored once and has been evicted
Wit_C4 ==
    /\ last.op = "get" /\ last.key \notin DOMAIN last.preDict
    /\ InQueue(last.preLru, last.key)
    /\ last.res[1] = "KeyError"
    /\ queue # <<>>

\* C10: the recency queue lists every stored key exactly once and no key
\* that is not stored.
Thm_C10 ==
    /\ QueueKeys = StoredKeys
    /\ Len(queue) = Cardinality(StoredKeys)

\* a put of a key already present, in a cache of two or more keys
Wit_C10 ==
    /\ last.op = "put" /\ last.key \in DOMAIN last.preDict
    /\ Len(queue) >= 2
    /\ QueueKeys = StoredKeys

(***************************************************************************)
(* make_weighted and its helpers.  Floating point values are modelled as   *)
(* exact fractions <<numerator, denominator>> in lowest terms with a       *)
(* positive denominator.                                                   *)
(***************************************************************************)
MaxN == 3
MaxCoords == 3

\* values of the weight field of the coordinate records
WeightVals == {1, 2}

RECURSIVE Gcd(_, _)
Gcd(a, b) == IF b = 0 THEN a ELSE Gcd(b, a % b)

Abs(a) == IF a < 0 THEN -a ELSE a

Frac(n, d) ==
    LET g == Gcd(Abs(n), Abs(d))
        sgn == IF d < 0 THEN -1 ELSE 1
    IN  <<(sgn * n) \div g, (sgn * d) \div g>>

Zero == <<0, 1>>

One == <<1, 1>>

FracAdd(x, y) == Frac(x[1] * y[2] + y[1] * x[2], x[2] * y[2])

\* (x + 1) ** -1 of line 54, for x # -1
FracInv(x) == Frac(x[2], x[1])

\* coords['row'], coords['col'], coords['weight'] (lines 96-98, 132-133)
Field(cs, f) == [i \in 1..Len(cs) |-> cs[i][f]]

\* the sum of the values a coordinate list gives for the position p
RECURSIVE SumAt(_, _, _, _, _)
SumAt(w, irow, icol, p, i) ==
    IF i = 0 THEN Zero
    ELSE IF <<irow[i], icol[i]>> = p
         THEN FracAdd(SumAt(w, irow, icol, p, i - 1), w[i])
         ELSE SumAt(w, irow, icol, p, i - 1)

\* sp.coo_matrix((w, (irow, icol)), shape).tocsr() (lines 108-109, 145-146): the
\* stored positions are those the list names, duplicates are summed.  A matrix
\* is the function from its stored positions to their values.
CooToCsr(w, irow, icol) ==
    [p \in {<<irow[i], icol[i]>> : i \in 1..Len(w)} |-> SumAt(w, irow, icol, p, Len(w))]

\* recstosparse for a recarray (lines 94-98, 108-109)
recstosparse(cs) ==
    CooToCsr([i \in 1..Len(cs) |-> <<cs[i].weight, 1>>], Field(cs, "row"), Field(cs, "col"))

\* the sum of column c over the rows below r
RECURSIVE ColSum(_, _, _)
ColSum(a, c, r) ==
    IF r = 0 THEN Zero
    ELSE FracAdd(ColSum(a, c, r - 1),
                 IF <<r - 1, c>> \in DOMAIN a THEN a[<<r - 1, c>>] ELSE Zero)

\* indegree (lines 70-72): adj.sum(axis=0) as a flat vector
indegree(a, n) == [c \in 0..(n - 1) |-> ColSum(a, c, n)]

\* disttosim (line 54), elementwise
disttosim(x) == [c \in DOMAIN x |-> FracInv(FracAdd(x[c], One))]

\* weights taken from the source node of each edge
EdgeWeights_BySource(s, irow, icol) == [i \in 1..Len(icol) |-> s[irow[i]]]

\* weights = sim[icol] (line 143)
EdgeWeights(s, irow, icol) == [i \in 1..Len(icol) |-> s[icol[i]]]

Recs(n) == [row : 0..(n - 1), col : 0..(n - 1), weight : WeightVals]

RecLE(a, b) ==
    \/ a.row < b.row
    \/ a.row = b.row /\ a.col < b.col
    \/ a.row = b.row /\ a.col = b.col /\ a.weight <= b.weight

\* coordinate files list their records in row-major order, as
\* dict_of_dicts_to_coo writes them (lines 167-172); a position may repeat
RowMajor(cs) == \A i \in 1..(Len(cs) - 1) : RecLE(cs[i], cs[i + 1])

CoordFiles(n) ==
    UNION {{cs \in [1..k -> Recs(n)] : RowMajor(cs)} : k \in 0..MaxCoords}

InitW ==
    /\ N \in 1..MaxN
    /\ coordfile \in CoordFiles(N)
    /\ coords = <<>>
    /\ adj = <<>>
    /\ dist = <<>>
    /\ sim = <<>>
    /\ weights = <<>>
    /\ wadj = <<>>
    /\ pcW = "load"

\* line 130
MW_Load ==
    /\ pcW = "load"
    /\ coords' = coordfile
    /\ pcW' = "recstosparse"
    /\ UNCHANGED <<N, coordfile, adj, dist, sim, weights, wadj, varsCache, varsL, varsA>>

\* line 136
MW_RecsToSparse ==
    /\ pcW = "recstosparse"
    /\ adj' = recstosparse(coords)
    /\ pcW' = "indegree"
    /\ UNCHANGED <<N, coordfile, coords, dist, sim, weights, wadj, varsCache, varsL, varsA>>

\* line 138
MW_InDegree ==
    /\ pcW = "indegree"
    /\ dist' = indegree(adj, N)
    /\ pcW' = "disttosim"
    /\ UNCHANGED <<N, coordfile, coords, adj, sim, weights, wadj, varsCache, varsL, varsA>>

\* line 140
MW_DistToSim ==
    /\ pcW = "disttosim"
    /\ sim' = disttosim(dist)
    /\ pcW' = "weights"
    /\ UNCHANGED <<N, coordfile, coords, adj, dist, weights, wadj, varsCache, varsL, varsA>>

\* line 143
MW_Weights ==
    /\ pcW = "weights"
    /\ weights' = EdgeWeights(sim, Field(coords, "row"), Field(coords, "col"))
    /\ pcW' = "csr"
    /\ UNCHANGED <<N, coordfile, coords, adj, dist, sim, wadj, varsCache, varsL, varsA>>

\* lines 145-147
MW_Csr ==
    /\ pcW = "csr"
    /\ wadj' = CooToCsr(weights, Field(coords, "row"), Field(coords, "col"))
    /\ pcW' = "done"
    /\ UNCHANGED <<N, coordfile, coords, adj, dist, sim, weights, varsCache, varsL, varsA>>

NextW ==
    \/ MW_Load
    \/ MW_RecsToSparse
    \/ MW_InDegree
    \/ MW_DistToSim
    \/ MW_Weights
    \/ MW_Csr

InitWeightedOnly == RestCache /\ InitW /\ RestL /\ RestA

SpecWeighted == InitWeightedOnly /\ [][NextW]_vars

(***************************************************************************)
(* Properties of make_weighted.                                            *)
(***************************************************************************)
\* the number of coordinate records at position <<r, c>>
Multiplicity(cs, r, c) == Cardinality({i \in 1..Len(cs) : cs[i].row = r /\ cs[i].col = c})

\* the number of coordinate records whose col is c
ColCount(cs, c) == Cardinality({i \in 1..Len(cs) : cs[i].col = c})

\* C5 as claimed: every stored entry (row, col) of the returned matrix is
\* 1/(d+1), d being the first pass's in-degree of col, whatever the row and
\* also for coordinate lists that repeat a position.
CE_C5 ==
    pcW = "done" =>
        \A p \in DOMAIN wadj : wadj[p] = FracInv(FracAdd(dist[p[2]], One))

\* C5 as amended: the stored entries of the returned matrix are the positions
\* the coordinate list names, and the entry (row, col) is m/(d+1), where d is
\* the value the first pass computed for column col and m is the number of
\* coordinate records at (row, col), whose weights 1/(d+1) the final conversion
\* sums; it is 1/(d+1) for a position that occurs once.
Thm_C5 ==
    pcW = "done" =>
        /\ DOMAIN wadj = {<<coords[i].row, coords[i].col>> : i \in 1..Len(coords)}
        /\ \A p \in DOMAIN wadj :
             wadj[p] = Frac(Multiplicity(coords, p[1], p[2]) * (dist[p[2]][2]),
                            dist[p[2]][1] + dist[p[2]][2])

\* the example of the specification: (0,1),(1,2),(2,1) on three nodes
Wit_C5 ==
    /\ pcW = "done"
    /\ N = 3
    /\ Len(coords) = 3
    /\ <<coords[1].row, coords[1].col>> = <<0, 1>>
    /\ <<coords[2].row, coords[2].col>> = <<1, 2>>
    /\ <<coords[3].row, coords[3].col>> = <<2, 1>>
    /\ dist = [c \in 0..2 |-> <<(IF c = 0 THEN 0 ELSE IF c = 1 THEN 2 ELSE 1), 1>>]
    /\ wadj[<<0, 1>>] = <<1, 3>>
    /\ wadj[<<1, 2>>] = <<1, 2>>
    /\ wadj[<<2, 1>>] = <<1, 3>>

\* C6: the in-degree fed to the similarity transform is, for every column c,
\* the number of coordinate records whose col is c, whatever the weight
\* fields hold.
CE_C6 ==
    pcW \in {"disttosim", "weights", "csr", "done"} =>
        \A c \in 0..(N - 1) : dist[c] = <<ColCount(coords, c), 1>>

(***************************************************************************)
(* loadadjcsr.  A container is the set of its entry names (npz.files) and    *)
(* the arrays stored under them; the value 1.0 is the number 1.            *)
(***************************************************************************)
MaxRows == 2
MaxNnz == 3

\* values of the data array of a stored matrix
DataVals == {1, 2}

EntryNames == {"indices", "indptr", "data"}

\* the arrays of a row-compressed square matrix of n rows with nnz stored entries
CsrArrays(n, nnz) ==
    {t \in [indptr : [1..(n + 1) -> 0..nnz], indices : [1..nnz -> 0..(n - 1)],
            data : [1..nnz -> DataVals]] :
        /\ t.indptr[1] = 0
        /\ t.indptr[n + 1] = nnz
        /\ \A r \in 1..n : t.indptr[r] <= t.indptr[r + 1]}

\* a container keeps the arrays of the names it holds
Container(t, f) ==
    [files |-> f,
     indices |-> IF "indices" \in f THEN t.indices ELSE <<>>,
     indptr |-> IF "indptr" \in f THEN t.indptr ELSE <<>>,
     data |-> IF "data" \in f THEN t.data ELSE <<>>]

Containers ==
    {Container(t, f) :
        t \in UNION {CsrArrays(n, nnz) : n \in 1..MaxRows, nnz \in 0..MaxNnz},
        f \in SUBSET EntryNames}

\* an array of zeros
NpOnes_Zeros(n) == [i \in 1..n |-> 0]

\* np.ones((n,), dtype=np.float64) (line 293)
NpOnes(n) == [i \in 1..n |-> 1]

\* sp.csr_matrix((data, indices, indptr), shape=(n, n)) (line 294): the arrays
\* are kept as given, cut to the indptr[-1] entries the index pointer covers
CsrMatrix(data, indices, indptr, n) ==
    IF \/ Len(indptr) # n + 1
       \/ Len(indices) # Len(data)
       \/ indptr[1] # 0
       \/ indptr[Len(indptr)] > Len(indices)
    THEN [status |-> "ValueError"]
    ELSE [status |-> "ok",
          data |-> SubSeq(data, 1, indptr[Len(indptr)]),
          indices |-> SubSeq(indices, 1, indptr[Len(indptr)]),
          indptr |-> indptr,
          shape |-> <<n, n>>]

InitL ==
    /\ npzfile \in Containers
    /\ npz = <<>>
    /\ loc = <<>>
    /\ resL = <<>>
    /\ pcL = "load"

\* line 287
L_Load ==
    /\ pcL = "load"
    /\ npz' = npzfile
    /\ pcL' = "fields"
    /\ UNCHANGED <<npzfile, loc, resL, varsCache, varsW, varsA>>

\* lines 288-291: a['indices'] and a['indptr'] raise KeyError for a missing
\* entry; the local name data is not bound yet
L_Fields ==
    /\ pcL = "fields"
    /\ IF {"indices", "indptr"} \subseteq npz.files
       THEN /\ loc' = [indices |-> npz.indices, indptr |-> npz.indptr,
                       n_rows |-> Len(npz.indptr) - 1, n_data |-> Len(npz.indices),
                       data |-> <<>>, data_bound |-> FALSE]
            /\ pcL' = "data"
            /\ UNCHANGED resL
       ELSE /\ resL' = [status |-> "KeyError"]
            /\ pcL' = "done"
            /\ UNCHANGED loc
    /\ UNCHANGED <<npzfile, npz, varsCache, varsW, varsA>>

\* lines 292-293: data is assigned only when the container has no data entry
L_Data ==
    /\ pcL = "data"
    /\ loc' = IF "data" \notin npz.files THEN [loc EXCEPT !.data = NpOnes(loc.n_data), !.data_bound = TRUE]
              ELSE loc
    /\ pcL' = "csr"
    /\ UNCHANGED <<npzfile, npz, resL, varsCache, varsW, varsA>>

\* line 294: reading the local data before any assignment raises UnboundLocalError
L_Csr ==
    /\ pcL = "csr"
    /\ resL' = IF ~loc.data_bound
               THEN [status |-> "UnboundLocalError"]
               ELSE CsrMatrix(loc.data, loc.indices, loc.indptr, loc.n_rows)
    /\ pcL' = "done"
    /\ UNCHANGED <<npzfile, npz, loc, varsCache, varsW, varsA>>

NextL ==
    \/ L_Load
    \/ L_Fields
    \/ L_Data
    \/ L_Csr

InitLoadOnly == RestCache /\ RestW /\ InitL /\ RestA

SpecLoad == InitLoadOnly /\ [][NextL]_vars

(***************************************************************************)
(* Properties of loadadjcsr.                                               *)
(***************************************************************************)
\* C7: on a container that holds indices, indptr and data the load succeeds
\* and returns the square matrix of len(indptr)-1 rows whose stored values are
\* the container's data array.
CE_C7 ==
    (pcL = "done" /\ npzfile.files = {"indices", "indptr", "data"}) =>
        /\ resL.status = "ok"
        /\ resL.shape = <<Len(npzfile.indptr) - 1, Len(npzfile.indptr) - 1>>
        /\ resL.data = npzfile.data

\* C8: on a container that holds indices and indptr but no data the load
\* returns a matrix with exactly len(indices) stored entries, each equal to 1.0.
Thm_C8 ==
    (pcL = "done" /\ npzfile.files = {"indices", "indptr"}) =>
        /\ resL.status = "ok"
        /\ Len(resL.data) = Len(npzfile.indices)
        /\ resL.indices = npzfile.indices
        /\ \A i \in 1..Len(resL.data) : resL.data[i] = 1

Wit_C8 ==
    /\ pcL = "done"
    /\ npzfile.files = {"indices", "indptr"}
    /\ Len(npzfile.indices) >= 2
    /\ resL.status = "ok"
    /\ Len(resL.data) = Len(npzfile.indices)

(***************************************************************************)
(* arrayfile.  Files and strings are sequences of byte values.  The        *)
(* element descriptor is '<f8' (no fields) or a list of nfields pairs      *)
(* ('f000', '<f8'), ('f001', '<f8'), ...                                   *)
(***************************************************************************)
MaxFields == 150

\* the dimensions and ranks of the shapes tried
Dims == {3, 10}

Shapes == {<<x>> : x \in Dims} \cup {<<x, y>> : x \in Dims, y \in Dims}

NL == 10

SP == 32

\* '\x93NUMPY\x01\x00' (line 32)
preamble == <<147, 78, 85, 77, 80, 89, 1, 0>>

\* repr of a non-negative int
RECURSIVE ReprInt(_)
ReprInt(n) == IF n < 10 THEN <<48 + n>> ELSE ReprInt(n \div 10) \o <<48 + (n % 10)>>

\* repr of a bool
ReprBool(b) == IF b THEN <<84, 114, 117, 101>> ELSE <<70, 97, 108, 115, 101>>

\* repr of a tuple of ints: (3,) and (3, 10)
ReprShape(sh) ==
    IF Len(sh) = 1 THEN <<40>> \o ReprInt(sh[1]) \o <<44, 41>>
    ELSE <<40>> \o ReprInt(sh[1]) \o <<44, SP>> \o ReprInt(sh[2]) \o <<41>>

\* ('f<i>', '<f8') with its separator: "('fddd', '<f8'), ", the field number
\* written with three digits
ReprField(i) ==
    <<40, 39, 102>> \o <<48 + (i \div 100), 48 + ((i \div 10) % 10), 48 + (i % 10)>> \o <<39, 44, 32, 39, 60, 102, 56, 39, 41, 44, 32>>

FieldWidth == Len(ReprField(0))

\* the reprs of fields 0 .. n-1, separated by ", "
ReprFields(n) ==
    [p \in 1..(n * FieldWidth - 2) |->
        ReprField((p - 1) \div FieldWidth)[((p - 1) % FieldWidth) + 1]]

\* repr of the element descriptor
ReprDescr(nfields) ==
    IF nfields = 0 THEN <<39, 60, 102, 56, 39>> ELSE <<91>> \o ReprFields(nfields) \o <<93>>

\* the header dictionary of lines 27-31 as write_array_header_1_0 spells it:
\* "{" then "'key': repr(value), " for the keys in sorted order, then "}"
HeaderDict(ar) ==
    <<123, 39, 100, 101, 115, 99, 114, 39, 58, 32>> \o ReprDescr(ar.nfields) \o
    <<44, 32, 39, 102, 111, 114, 116, 114, 97, 110, 95, 111, 114, 100, 101, 114, 39, 58, 32>> \o ReprBool(ar.fortran) \o
    <<44, 32, 39, 115, 104, 97, 112, 101, 39, 58, 32>> \o ReprShape(ar.shape) \o
    <<44, 32, 125>>

\* the space padding that brings preamble, length field, dictionary and the
\* final newline to a multiple of 16 bytes
HeaderPad(h) == 16 - ((Len(preamble) + 2 + Len(h) + 1) % 16)

\* the padded header text, ending in its only newline
HeaderText(ar) ==
    LET h == HeaderDict(ar)
    IN  h \o [i \in 1..HeaderPad(h) |-> SP] \o <<NL>>

\* what format.write_array_header_1_0(fp, header) writes (lines 35-36): the
\* length of the header text as a little-endian unsigned short, then the text
HeaderBytes(ar) ==
    LET t == HeaderText(ar)
    IN  <<Len(t) % 256, Len(t) \div 256>> \o t

\* the index of the first newline of buf after position pos, or Len(buf)
LineEnd(buf, pos) ==
    IF \E i \in (pos + 1)..Len(buf) : buf[i] = NL
    THEN CHOOSE i \in (pos + 1)..Len(buf) :
            buf[i] = NL /\ \A j \in (pos + 1)..(i - 1) : buf[j] # NL
    ELSE Len(buf)

\* cio.readline() (line 38): the bytes up to and including the first newline
ReadLine(buf, pos) == SubSeq(buf, pos + 1, LineEnd(buf, pos))

InitA ==
    /\ args \in [shape : Shapes, nfields : 0..MaxFields, fortran : BOOLEAN]
    /\ data_file = <<>>
    /\ cio = <<>>
    /\ cio_pos = 0
    /\ offset = 0
    /\ view = <<>>
    /\ pcA = "preamble"

\* line 33
A_Preamble ==
    /\ pcA = "preamble"
    /\ data_file' = data_file \o preamble
    /\ pcA' = "cio_header"
    /\ UNCHANGED <<args, cio, cio_pos, offset, view, varsCache, varsW, varsL>>

\* lines 34-35
A_CioHeader ==
    /\ pcA = "cio_header"
    /\ cio' = HeaderBytes(args)
    /\ cio_pos' = Len(HeaderBytes(args))
    /\ pcA' = "file_header"
    /\ UNCHANGED <<args, data_file, offset, view, varsCache, varsW, varsL>>

\* line 36
A_FileHeader ==
    /\ pcA = "file_header"
    /\ data_file' = data_file \o HeaderBytes(args)
    /\ pcA' = "seek"
    /\ UNCHANGED <<args, cio, cio_pos, offset, view, varsCache, varsW, varsL>>

\* line 37
A_Seek ==
    /\ pcA = "seek"
    /\ cio_pos' = 0
    /\ pcA' = "offset"
    /\ UNCHANGED <<args, data_file, cio, offset, view, varsCache, varsW, varsL>>

\* line 38
A_Offset ==
    /\ pcA = "offset"
    /\ offset' = Len(preamble) + Len(ReadLine(cio, cio_pos))
    /\ cio_pos' = LineEnd(cio, cio_pos)
    /\ pcA' = "memmap"
    /\ UNCHANGED <<args, data_file, cio, view, varsCache, varsW, varsL>>

\* lines 39-40
A_Memmap ==
    /\ pcA = "memmap"
    /\ view' = [offset |-> offset, shape |-> args.shape]
    /\ pcA' = "done"
    /\ UNCHANGED <<args, data_file, cio, cio_pos, offset, varsCache, varsW, varsL>>

NextA ==
    \/ A_Preamble
    \/ A_CioHeader
    \/ A_FileHeader
    \/ A_Seek
    \/ A_Offset
    \/ A_Memmap

InitArrayFileOnly == RestCache /\ RestW /\ RestL /\ InitA

SpecArrayFile == InitArrayFileOnly /\ [][NextA]_vars

(***************************************************************************)
(* Properties of arrayfile.                                                *)
(***************************************************************************)
\* C9: the sink holds the preamble and then the serialized header, and the
\* offset of the mapped data region equals the number of bytes written to the
\* sink, so the view starts at the first byte after the header.
CE_C9 ==
    pcA = "done" =>
        /\ data_file = preamble \o HeaderBytes(args)
        /\ view.offset = Len(data_file)
====
